---- MODULE Spec2Model ----
(***************************************************************************)
(* A model of the Polly-API client library: register_user, fetch_polls,    *)
(* fetch_polls_with_validation, vote_on_poll and get_poll_results.         *)
(*                                                                         *)
(* Each client function is one action.  The server (or the network) is the *)
(* environment: it answers every request with a transport failure or with  *)
(* an HTTP response drawn from a bounded set of statuses and bodies.       *)
(*                                                                         *)
(* Strings are sequences of words, so that f-string formatting is          *)
(* concatenation and Python's substring test is a test for a contiguous    *)
(* run of words.                                                           *)
(***************************************************************************)
EXTENDS Integers, Sequences, FiniteSets, TLC

VARIABLES
    pc,         \* "idle": the caller is between calls; "done": a call has ended
    op,         \* the client function of the last call
    response,   \* what the network gave that call
    outcome,    \* how that call ended: a returned value or a raised exception
    requests,   \* the HTTP requests that call issued, in order
    sent,       \* number of HTTP requests issued so far
    calls,      \* number of client calls made so far
    jsonErrorIsRequestException
                \* whether the installed requests library derives the error of
                \* Response.json() from RequestException (2.27 and later) or
                \* only from ValueError (earlier releases)

vars == <<pc, op, response, outcome, requests, sent, calls, jsonErrorIsRequestException>>

-----------------------------------------------------------------------------
(* Bounds of the model. *)

MaxCalls == 2       \* client calls in one behaviour
MaxPolls == 2       \* polls in a poll-list payload
MaxOptions == 2     \* options in a poll
MaxResults == 2     \* entries in a poll-results payload

-----------------------------------------------------------------------------
(* Decoded JSON values, as json.loads gives them to Python. *)

JNull == [k |-> "null"]
JBool(b) == [k |-> "bool", b |-> b]
JInt(n) == [k |-> "int", n |-> n]
JStr(s) == [k |-> "str", s |-> s]
JList(xs) == [k |-> "list", items |-> xs]
JObj(f) == [k |-> "obj", f |-> f]

(* Response bodies: the raw text either decodes to a JSON value or does not. *)
EmptyBody == [raw |-> "empty"]
TextBody == [raw |-> "text"]
JsonBody(v) == [raw |-> "json", val |-> v]

(* Response.json(): the decoded value, or a decoding error. *)
Json(body) ==
    IF body.raw = "json" THEN [ok |-> TRUE, val |-> body.val] ELSE [ok |-> FALSE]

-----------------------------------------------------------------------------
(* Python primitives the client applies to decoded values. *)

(* isinstance(x, int): bool is a subclass of int. *)
IsInstanceInt(x) == x.k \in {"int", "bool"}
IsInstanceStr(x) == x.k = "str"
IsInstanceList(x) == x.k = "list"

(* needle in hay, for two word sequences: a contiguous run. *)
Contains(hay, needle) ==
    \E i \in 0..(Len(hay) - Len(needle)) :
        \A n \in 1..Len(needle) : hay[i + n] = needle[n]

(* Whether "key in x" evaluates at all: it raises TypeError on None, numbers *)
(* and booleans.                                                             *)
SupportsIn(x) == x.k \in {"obj", "list", "str"}

(* key in x, for a key given as a word sequence. *)
In(key, x) ==
    CASE x.k = "obj" -> Len(key) = 1 /\ key[1] \in DOMAIN x.f
      [] x.k = "list" -> \E i \in 1..Len(x.items) : x.items[i] = JStr(key)
      [] x.k = "str" -> Contains(x.s, key)
      [] OTHER -> FALSE

(* Whether x[field] evaluates: only a dict can be indexed by a string. *)
SupportsSubscript(x) == x.k = "obj"

(* Decimal(n): str(n) for a natural number. *)
Digit == <<"0", "1", "2", "3", "4", "5", "6", "7", "8", "9">>
RECURSIVE Decimal(_)
Decimal(n) ==
    IF n < 10 THEN Digit[n + 1] ELSE Decimal(n \div 10) \o Digit[(n % 10) + 1]

(* str(x) of a decoded value, as an f-string renders it. *)
PyStr(x) ==
    CASE x.k = "str" -> x.s
      [] x.k = "int" -> <<Decimal(x.n)>>
      [] x.k = "null" -> <<"None">>
      [] x.k = "bool" -> IF x.b THEN <<"True">> ELSE <<"False">>
      [] x.k = "list" -> <<"[]">>
      [] OTHER -> <<"{}">>

-----------------------------------------------------------------------------
(* Outcomes of a call. *)

Return(v) == [kind |-> "return", value |-> v]
Raise(cls, msg) == [kind |-> "raise", cls |-> cls, msg |-> msg]

NoOutcome == [kind |-> "none"]
NoResponse == [net |-> "none"]

-----------------------------------------------------------------------------
(* Pieces shared by the client functions. *)

Quoted(field) == "'" \o field \o "'"

(* The type name Python prints for a decoded value. *)
PyTypeName(x) ==
    CASE x.k = "null" -> "'NoneType'"
      [] x.k = "bool" -> "'bool'"
      [] x.k = "int" -> "'int'"
      [] x.k = "str" -> "'str'"
      [] x.k = "list" -> "'list'"
      [] OTHER -> "'dict'"

(* The TypeError of "field in x" on a value that is no container. *)
NotIterable(x) ==
    Raise("TypeError", <<"argument", "of", "type", PyTypeName(x), "is", "not", "iterable">>)

(* The TypeError of x["field"] on a list or a string. *)
BadSubscript(x) ==
    Raise("TypeError", <<PyTypeName(x), "indices", "must", "be", "integers">>)

(* The exception a network-level failure raises inside requests. *)
CauseText(cause) ==
    IF cause = "Timeout" THEN <<"read", "timed", "out">> ELSE <<"connection", "refused">>

(* The decoding error Response.json() raises on a body that is not JSON. *)
DecodeErrorText == <<"Expecting", "value">>

(* except requests.exceptions.RequestException as e:                        *)
(*     raise requests.exceptions.RequestException(f"Request failed: {e}")  *)
RequestFailedWrap(text) == Raise("RequestException", <<"Request", "failed:">> \o text)

(* A decoding error raised inside the try block of fetch_polls, vote_on_poll *)
(* or get_poll_results: the handler catches it when it is a                  *)
(* RequestException and lets it pass when it is only a ValueError.           *)
DecodeErrorInTry(modern) ==
    IF modern THEN RequestFailedWrap(DecodeErrorText)
    ELSE Raise("JSONDecodeError", DecodeErrorText)

(* try: error_data = response.json()                                       *)
(*      error_message = error_data.get("detail", "Unknown error")           *)
(* except: error_message = f"HTTP {response.status_code}"                   *)
ErrorMessage(resp) ==
    LET j == Json(resp.body) IN
    IF ~j.ok THEN <<"HTTP", Decimal(resp.status)>>
    ELSE IF j.val.k # "obj" THEN <<"HTTP", Decimal(resp.status)>>
    ELSE IF "detail" \in DOMAIN j.val.f THEN PyStr(j.val.f.detail)
    ELSE <<"Unknown", "error">>

(* for field in fields: if field not in x: raise ...                        *)
(* The index of the first field of fields[n..] that x lacks, 0 when none.   *)
RECURSIVE FirstMissing(_, _, _)
FirstMissing(x, fields, n) ==
    IF n > Len(fields) THEN 0
    ELSE IF ~In(<<fields[n]>>, x) THEN n
    ELSE FirstMissing(x, fields, n + 1)

HttpRequest(method, endpoint) == [method |-> method, endpoint |-> endpoint]

Passed == [kind |-> "passed"]

-----------------------------------------------------------------------------
(* register_user *)

DuplicateText == <<"Username", "already", "registered">>

(* "Username already registered" in error_data.get("detail", ""): whether   *)
(* the test evaluates, and its value.                                       *)
DetailOf(f) == IF "detail" \in DOMAIN f THEN f.detail ELSE JStr(<<>>)

register_user(resp, modern) ==
    [reqs |-> <<HttpRequest("POST", "/register")>>,
     out |->
        IF resp.net = "failed" THEN Raise(resp.cause, CauseText(resp.cause))
        ELSE LET j == Json(resp.body) IN
             IF ~j.ok THEN Raise("JSONDecodeError", DecodeErrorText)
             ELSE IF resp.status = 200 THEN Return(j.val)
             ELSE IF j.val.k # "obj" THEN
                 Raise("AttributeError", <<PyTypeName(j.val), "object", "has", "no", "attribute", "'get'">>)
             ELSE LET detail == DetailOf(j.val.f) IN
                  IF resp.status = 400 /\ ~SupportsIn(detail) THEN NotIterable(detail)
                  ELSE IF resp.status = 400 /\ In(DuplicateText, detail)
                       THEN Raise("ValueError", DuplicateText)
                  ELSE Raise("ValueError",
                             <<"Registration", "failed:">> \o
                             (IF "detail" \in DOMAIN j.val.f THEN PyStr(j.val.f.detail)
                              ELSE <<"Unknown", "error">>))]

-----------------------------------------------------------------------------
(* fetch_polls and fetch_polls_with_validation *)

fetch_polls(resp, modern) ==
    [reqs |-> <<HttpRequest("GET", "/polls")>>,
     out |->
        IF resp.net = "failed" THEN RequestFailedWrap(CauseText(resp.cause))
        ELSE IF resp.status = 200 THEN
            LET j == Json(resp.body) IN
            IF ~j.ok THEN DecodeErrorInTry(modern)
            ELSE IF ~IsInstanceList(j.val) THEN
                Raise("ValueError", <<"Expected", "a", "list", "of", "polls", "in", "the", "response">>)
            ELSE Return(j.val)
        ELSE Raise("ValueError", <<"Failed", "to", "fetch", "polls:">> \o ErrorMessage(resp))]

PollFields == <<"id", "question", "created_at", "owner_id", "options">>
OptionFields == <<"id", "text", "poll_id">>

(* i and j are Python's 0-based indices. *)
PollMissingText(i, field) ==
    <<"Poll", "at", "index", Decimal(i), "is", "missing", "required", "field:", field>>
PollTypeText(i, field, type) ==
    <<"Poll", "at", "index", Decimal(i) \o ":", Quoted(field), "must", "be">> \o type
OptionMissingText(i, j, field) ==
    <<"Poll", Decimal(i) \o ",", "option", Decimal(j), "is", "missing", "required", "field:", field>>

(* ValidateOption numbering the options from 1 in its message. *)
ValidateOptionFromOne(i, j, option) ==
    IF ~SupportsIn(option) THEN NotIterable(option)
    ELSE LET m == FirstMissing(option, OptionFields, 1) IN
         IF m # 0 THEN Raise("ValueError", OptionMissingText(i - 1, j, OptionFields[m]))
         ELSE Passed

(* The body of the inner loop for option number j (1-based) of poll i. *)
ValidateOption(i, j, option) ==
    IF ~SupportsIn(option) THEN NotIterable(option)
    ELSE LET m == FirstMissing(option, OptionFields, 1) IN
         IF m # 0 THEN Raise("ValueError", OptionMissingText(i - 1, j - 1, OptionFields[m]))
         ELSE Passed

RECURSIVE ValidateOptions(_, _, _)
ValidateOptions(i, options, j) ==
    IF j > Len(options) THEN Passed
    ELSE LET r == ValidateOption(i, j, options[j]) IN
         IF r.kind = "raise" THEN r ELSE ValidateOptions(i, options, j + 1)

(* The type checks of one poll, in the order of the source. *)
ValidatePollTypes(i, poll) ==
    IF ~IsInstanceInt(poll.f.id) THEN
        Raise("ValueError", PollTypeText(i - 1, "id", <<"an", "integer">>))
    ELSE IF ~IsInstanceStr(poll.f.question) THEN
        Raise("ValueError", PollTypeText(i - 1, "question", <<"a", "string">>))
    ELSE IF ~IsInstanceInt(poll.f.owner_id) THEN
        Raise("ValueError", PollTypeText(i - 1, "owner_id", <<"an", "integer">>))
    ELSE IF ~IsInstanceList(poll.f.options) THEN
        Raise("ValueError", PollTypeText(i - 1, "options", <<"a", "list">>))
    ELSE Passed

(* ValidatePoll looking at the options of the poll before the types of its  *)
(* own fields.                                                              *)
ValidatePollOptionsFirst(i, poll) ==
    IF ~SupportsIn(poll) THEN NotIterable(poll)
    ELSE LET m == FirstMissing(poll, PollFields, 1) IN
         IF m # 0 THEN Raise("ValueError", PollMissingText(i - 1, PollFields[m]))
         ELSE IF ~SupportsSubscript(poll) THEN BadSubscript(poll)
         ELSE LET o == IF IsInstanceList(poll.f.options)
                       THEN ValidateOptions(i, poll.f.options.items, 1)
                       ELSE Passed IN
              IF o.kind = "raise" THEN o ELSE ValidatePollTypes(i, poll)

(* The body of the outer loop for poll number i (1-based). *)
ValidatePoll(i, poll) ==
    IF ~SupportsIn(poll) THEN NotIterable(poll)
    ELSE LET m == FirstMissing(poll, PollFields, 1) IN
         IF m # 0 THEN Raise("ValueError", PollMissingText(i - 1, PollFields[m]))
         ELSE IF ~SupportsSubscript(poll) THEN BadSubscript(poll)
         ELSE LET t == ValidatePollTypes(i, poll) IN
              IF t.kind = "raise" THEN t
              ELSE ValidateOptions(i, poll.f.options.items, 1)

RECURSIVE ValidatePolls(_, _)
ValidatePolls(polls, i) ==
    IF i > Len(polls) THEN Passed
    ELSE LET r == ValidatePoll(i, polls[i]) IN
         IF r.kind = "raise" THEN r ELSE ValidatePolls(polls, i + 1)

(* ValidatedResult handing back a slice that is one poll short. *)
ValidatedResultOneShort(polls) ==
    Return(JList(SubSeq(polls.items, 1, Len(polls.items) - 1)))

(* What fetch_polls_with_validation hands back once every poll has passed. *)
ValidatedResult(polls) == Return(polls)

(* fetch_polls_with_validation fetching again after a failed validation. *)
fetch_polls_with_validation_refetching(resp, modern) ==
    LET inner == fetch_polls(resp, modern) IN
    IF inner.out.kind = "raise" THEN inner
    ELSE LET v == ValidatePolls(inner.out.value.items, 1) IN
         IF v.kind = "raise" THEN [reqs |-> inner.reqs \o inner.reqs, out |-> v]
         ELSE [reqs |-> inner.reqs, out |-> ValidatedResult(inner.out.value)]

fetch_polls_with_validation(resp, modern) ==
    LET inner == fetch_polls(resp, modern) IN
    [reqs |-> inner.reqs,
     out |->
        IF inner.out.kind = "raise" THEN inner.out
        ELSE LET v == ValidatePolls(inner.out.value.items, 1) IN
             IF v.kind = "raise" THEN v ELSE ValidatedResult(inner.out.value)]

-----------------------------------------------------------------------------
(* vote_on_poll *)

VoteFields == <<"id", "user_id", "option_id", "created_at">>

MissingFieldText(field) == <<"Invalid", "response:", "missing", "field", Quoted(field)>>

(* VoteError without its 401 branch. *)
VoteErrorWithout401(resp) ==
    IF resp.status = 404 THEN
        Raise("ValueError", <<"Poll", "or", "option", "not", "found">>)
    ELSE Raise("ValueError", <<"Failed", "to", "vote", "on", "poll:">> \o ErrorMessage(resp))

(* The branch on the status code of an unsuccessful vote. *)
VoteError(resp) ==
    IF resp.status = 401 THEN
        Raise("ValueError", <<"Unauthorized:", "Invalid", "or", "expired", "access", "token">>)
    ELSE IF resp.status = 404 THEN
        Raise("ValueError", <<"Poll", "or", "option", "not", "found">>)
    ELSE Raise("ValueError", <<"Failed", "to", "vote", "on", "poll:">> \o ErrorMessage(resp))

vote_on_poll(resp, modern) ==
    [reqs |-> <<HttpRequest("POST", "/polls/{poll_id}/vote")>>,
     out |->
        IF resp.net = "failed" THEN RequestFailedWrap(CauseText(resp.cause))
        ELSE IF resp.status = 200 THEN
            LET j == Json(resp.body) IN
            IF ~j.ok THEN DecodeErrorInTry(modern)
            ELSE IF ~SupportsIn(j.val) THEN NotIterable(j.val)
            ELSE LET m == FirstMissing(j.val, VoteFields, 1) IN
                 IF m # 0 THEN Raise("ValueError", MissingFieldText(VoteFields[m]))
                 ELSE Return(j.val)
        ELSE VoteError(resp)]

-----------------------------------------------------------------------------
(* get_poll_results *)

ResultsFields == <<"poll_id", "question", "results">>
ResultFields == <<"option_id", "text", "vote_count">>

(* i is Python's 0-based index. *)
ResultMissingText(i, field) ==
    <<"Invalid", "response:", "result", Decimal(i), "missing", "field", Quoted(field)>>
ResultTypeText(i, field, type) ==
    <<"Invalid", "response:", "result", Decimal(i), Quoted(field), "must", "be", type>>

(* The type checks of one entry of results, in the order of the source. *)
ValidateResultTypes(i, result) ==
    IF ~IsInstanceInt(result.f.option_id) THEN
        Raise("ValueError", ResultTypeText(i - 1, "option_id", "integer"))
    ELSE IF ~IsInstanceStr(result.f.text) THEN
        Raise("ValueError", ResultTypeText(i - 1, "text", "string"))
    ELSE IF ~IsInstanceInt(result.f.vote_count) THEN
        Raise("ValueError", ResultTypeText(i - 1, "vote_count", "integer"))
    ELSE Passed

(* The body of the loop for entry number i (1-based) of results. *)
ValidateResult(i, result) ==
    IF ~SupportsIn(result) THEN NotIterable(result)
    ELSE LET m == FirstMissing(result, ResultFields, 1) IN
         IF m # 0 THEN Raise("ValueError", ResultMissingText(i - 1, ResultFields[m]))
         ELSE IF ~SupportsSubscript(result) THEN BadSubscript(result)
         ELSE ValidateResultTypes(i, result)

RECURSIVE ValidateResults(_, _)
ValidateResults(results, i) ==
    IF i > Len(results) THEN Passed
    ELSE LET r == ValidateResult(i, results[i]) IN
         IF r.kind = "raise" THEN r ELSE ValidateResults(results, i + 1)

(* The checks of a decoded 200 payload. *)
ValidateResultsData(data) ==
    IF ~SupportsIn(data) THEN NotIterable(data)
    ELSE LET m == FirstMissing(data, ResultsFields, 1) IN
         IF m # 0 THEN Raise("ValueError", MissingFieldText(ResultsFields[m]))
         ELSE IF ~SupportsSubscript(data) THEN BadSubscript(data)
         ELSE IF ~IsInstanceList(data.f.results) THEN
             Raise("ValueError", <<"Invalid", "response:", "'results'", "must", "be", "a", "list">>)
         ELSE LET v == ValidateResults(data.f.results.items, 1) IN
              IF v.kind = "raise" THEN v ELSE Return(data)

(* The branch on the status code of an unsuccessful results request. *)
ResultsError(resp) ==
    IF resp.status = 404 THEN Raise("ValueError", <<"Poll", "not", "found">>)
    ELSE Raise("ValueError", <<"Failed", "to", "get", "poll", "results:">> \o ErrorMessage(resp))

get_poll_results(resp, modern) ==
    [reqs |-> <<HttpRequest("GET", "/polls/{poll_id}/results")>>,
     out |->
        IF resp.net = "failed" THEN RequestFailedWrap(CauseText(resp.cause))
        ELSE IF resp.status = 200 THEN
            LET j == Json(resp.body) IN
            IF ~j.ok THEN DecodeErrorInTry(modern) ELSE ValidateResultsData(j.val)
        ELSE ResultsError(resp)]

-----------------------------------------------------------------------------
(* The environment: what the network can give a call. *)

TransportFailure(cause) == [net |-> "failed", cause |-> cause]
Http(status, body) == [net |-> "http", status |-> status, body |-> body]

Causes == {"ConnectionError", "Timeout"}
ErrorStatuses == {400, 401, 404, 500}

EmptyObject == [x \in {} |-> JNull]

(* Bodies a server sends with an error status. *)
ErrorBodies ==
    {EmptyBody, TextBody} \cup
    {JsonBody(v) : v \in
        {JObj([detail |-> JStr(DuplicateText)]),
         JObj([detail |-> JStr(<<"Error:">> \o DuplicateText \o <<"(alice)">>)]),
         JObj([detail |-> JStr(<<"Poll", "not", "found">>)]),
         JObj([detail |-> JInt(42)]),
         JObj([detail |-> JNull]),
         JObj(EmptyObject),
         JList(<<>>),
         JStr(<<"Internal", "Server", "Error">>),
         JNull}}

(* Values a payload field can be changed to. *)
Replacement(to) ==
    CASE to = "bool" -> JBool(TRUE)
      [] to = "int" -> JInt(7)
      [] to = "str" -> JStr(<<"x">>)
      [] OTHER -> JNull

Kinds == {"bool", "int", "str"}

(* v with one field removed (to = "absent") or set to another value; with   *)
(* field = "" the whole of v is replaced.                                   *)
AlterValue(v, field, to) ==
    IF field = "" THEN (IF to = "absent" THEN v ELSE Replacement(to))
    ELSE IF v.k # "obj" \/ field \notin DOMAIN v.f THEN v
    ELSE IF to = "absent" THEN JObj([g \in DOMAIN v.f \ {field} |-> v.f[g]])
    ELSE JObj([v.f EXCEPT ![field] = Replacement(to)])

(* Element n of a JSON list altered. *)
AlterItem(list, n, field, to) ==
    IF list.k # "list" \/ n \notin 1..Len(list.items) THEN list
    ELSE JList([list.items EXCEPT ![n] = AlterValue(@, field, to)])

ToSet(seq) == {seq[n] : n \in 1..Len(seq)}

(* Well-formed payloads. *)
GoodOption(p, j) ==
    JObj([id |-> JInt(10 * p + j), text |-> JStr(<<"choice", Decimal(j)>>), poll_id |-> JInt(p)])
GoodPoll(p, n) ==
    JObj([id |-> JInt(p), question |-> JStr(<<"Q?">>),
          created_at |-> JStr(<<"2024-01-01T00:00:00Z">>), owner_id |-> JInt(3),
          options |-> JList([j \in 1..n |-> GoodOption(p, j)])])
GoodPollLists ==
    {JList([p \in 1..np |-> GoodPoll(p, n)]) : np \in 0..MaxPolls, n \in 0..MaxOptions}

GoodVote ==
    JObj([id |-> JInt(9), user_id |-> JInt(3), option_id |-> JInt(2),
          created_at |-> JStr(<<"2024-01-01T00:00:00Z">>)])

GoodResult(e) ==
    JObj([option_id |-> JInt(e), text |-> JStr(<<"choice", Decimal(e)>>), vote_count |-> JInt(5)])
GoodResultsData ==
    {JObj([poll_id |-> JInt(1), question |-> JStr(<<"Q?">>),
           results |-> JList([e \in 1..n |-> GoodResult(e)])]) : n \in 0..MaxResults}

(* One alteration of a poll list: of a poll (option = 0) or of one of its   *)
(* options.                                                                 *)
PollAlterations ==
    [poll : 1..MaxPolls, option : {0}, field : {""} \cup ToSet(PollFields),
     to : {"absent"} \cup Kinds]
    \cup
    [poll : 1..MaxPolls, option : 1..MaxOptions, field : {""} \cup ToSet(OptionFields),
     to : {"absent"} \cup Kinds]

AlterPolls(list, a) ==
    IF a.poll \notin 1..Len(list.items) THEN list
    ELSE IF a.option = 0 THEN AlterItem(list, a.poll, a.field, a.to)
    ELSE LET poll == list.items[a.poll] IN
         IF poll.k # "obj" \/ "options" \notin DOMAIN poll.f THEN list
         ELSE JList([list.items EXCEPT ![a.poll] =
                 JObj([poll.f EXCEPT !["options"] = AlterItem(@, a.option, a.field, a.to)])])

(* Poll lists at most one, and at most two, alterations away from a         *)
(* well-formed one.                                                         *)
PollLists1 == GoodPollLists \cup {AlterPolls(l, a) : l \in GoodPollLists, a \in PollAlterations}
PollLists2 == PollLists1 \cup {AlterPolls(l, a) : l \in PollLists1, a \in PollAlterations}

VoteAlterations == [field : {""} \cup ToSet(VoteFields), to : {"absent"} \cup Kinds]
Votes1 == {GoodVote} \cup {AlterValue(GoodVote, a.field, a.to) : a \in VoteAlterations}
Votes2 == Votes1 \cup {AlterValue(v, a.field, a.to) : v \in Votes1, a \in VoteAlterations}

(* One alteration of a results payload: of the payload (entry = 0) or of    *)
(* one entry of its results.                                                *)
ResultsAlterations ==
    [entry : {0}, field : {""} \cup ToSet(ResultsFields), to : {"absent"} \cup Kinds]
    \cup
    [entry : 1..MaxResults, field : {""} \cup ToSet(ResultFields), to : {"absent"} \cup Kinds]

AlterResults(data, a) ==
    IF a.entry = 0 THEN AlterValue(data, a.field, a.to)
    ELSE IF data.k # "obj" \/ "results" \notin DOMAIN data.f THEN data
    ELSE JObj([data.f EXCEPT !["results"] = AlterItem(@, a.entry, a.field, a.to)])

ResultsData1 ==
    GoodResultsData \cup {AlterResults(d, a) : d \in GoodResultsData, a \in ResultsAlterations}
ResultsData2 ==
    ResultsData1 \cup {AlterResults(d, a) : d \in ResultsData1, a \in ResultsAlterations}

Users ==
    {JObj([id |-> JInt(1), username |-> JStr(<<"alice">>)]), JObj(EmptyObject),
     JList(<<>>), JNull}

(* Every response to a client function whose 200 payloads are in values. *)
Responses(values) ==
    {TransportFailure(c) : c \in Causes}
    \cup {Http(s, b) : s \in ErrorStatuses, b \in ErrorBodies}
    \cup {Http(200, b) : b \in {EmptyBody, TextBody} \cup {JsonBody(v) : v \in values}}

-----------------------------------------------------------------------------
(* The client functions as actions: one call, from request to outcome. *)

Call(name, result, resp) ==
    /\ pc' = "done"
    /\ op' = name
    /\ response' = resp
    /\ outcome' = result.out
    /\ requests' = result.reqs
    /\ sent' = sent + Len(result.reqs)
    /\ calls' = calls + 1
    /\ UNCHANGED jsonErrorIsRequestException

RegisterUser ==
    /\ pc = "idle" /\ calls < MaxCalls
    /\ \E resp \in Responses(Users) :
        Call("register_user", register_user(resp, jsonErrorIsRequestException), resp)

FetchPolls ==
    /\ pc = "idle" /\ calls < MaxCalls
    /\ \E resp \in Responses(PollLists1 \cup {JObj(EmptyObject), JNull}) :
        Call("fetch_polls", fetch_polls(resp, jsonErrorIsRequestException), resp)

FetchPollsWithValidation ==
    /\ pc = "idle" /\ calls < MaxCalls
    /\ \E resp \in Responses(PollLists2 \cup {JObj(EmptyObject), JNull}) :
        Call("fetch_polls_with_validation",
             fetch_polls_with_validation(resp, jsonErrorIsRequestException), resp)

VoteOnPoll ==
    /\ pc = "idle" /\ calls < MaxCalls
    /\ \E resp \in Responses(Votes2 \cup {JList(<<>>)}) :
        Call("vote_on_poll", vote_on_poll(resp, jsonErrorIsRequestException), resp)

GetPollResults ==
    /\ pc = "idle" /\ calls < MaxCalls
    /\ \E resp \in Responses(ResultsData2 \cup {JList(<<>>)}) :
        Call("get_poll_results", get_poll_results(resp, jsonErrorIsRequestException), resp)

(* The caller takes the outcome; the library keeps nothing of the call. *)
Finish ==
    /\ pc = "done"
    /\ pc' = "idle"
    /\ op' = "none"
    /\ response' = NoResponse
    /\ outcome' = NoOutcome
    /\ requests' = <<>>
    /\ UNCHANGED <<sent, calls, jsonErrorIsRequestException>>

Init ==
    /\ pc = "idle"
    /\ op = "none"
    /\ response = NoResponse
    /\ outcome = NoOutcome
    /\ requests = <<>>
    /\ sent = 0
    /\ calls = 0
    /\ jsonErrorIsRequestException \in BOOLEAN

Next ==
    \/ RegisterUser
    \/ FetchPolls
    \/ FetchPollsWithValidation
    \/ VoteOnPoll
    \/ GetPollResults
    \/ Finish

Spec == Init /\ [][Next]_vars

-----------------------------------------------------------------------------
(* The error taxonomy of the specification, read off the exception a call   *)
(* raised.  Every error the client raises itself is a ValueError; its kind  *)
(* is in the message.                                                       *)

StartsWith(msg, prefix) ==
    Len(msg) >= Len(prefix) /\ SubSeq(msg, 1, Len(prefix)) = prefix

IsTransportError(out) ==
    /\ out.kind = "raise"
    /\ \/ out.cls \in {"RequestException"} \cup Causes
       \/ out.cls = "JSONDecodeError" /\ jsonErrorIsRequestException

ErrorName(out) ==
    IF out.kind = "return" THEN "Returned"
    ELSE IF out.cls \in {"RequestException"} \cup Causes THEN "TransportError"
    ELSE IF out.cls # "ValueError" THEN out.cls
    ELSE IF out.msg = DuplicateText THEN "DuplicateUsername"
    ELSE IF StartsWith(out.msg, <<"Registration", "failed:">>) THEN "RegistrationFailed"
    ELSE IF StartsWith(out.msg, <<"Unauthorized:">>) THEN "Unauthorized"
    ELSE IF out.msg \in {<<"Poll", "or", "option", "not", "found">>, <<"Poll", "not", "found">>}
        THEN "NotFound"
    ELSE IF StartsWith(out.msg, <<"Failed", "to">>) THEN "RequestFailed"
    ELSE "InvalidResponse"

Done(name) == pc = "done" /\ op = name
GotHttp == response.net = "http"
Got200 == GotHttp /\ response.status = 200
GotJson == GotHttp /\ Json(response.body).ok
Payload == response.body.val

(* The data model of the specification: strict JSON types. *)
HasFields(x, fields) == x.k = "obj" /\ ToSet(fields) \subseteq DOMAIN x.f
WellTypedOption(o) ==
    /\ HasFields(o, OptionFields)
    /\ o.f.id.k = "int" /\ o.f.text.k = "str" /\ o.f.poll_id.k = "int"
WellTypedPoll(p) ==
    /\ HasFields(p, PollFields)
    /\ p.f.id.k = "int" /\ p.f.question.k = "str" /\ p.f.created_at.k = "str"
    /\ p.f.owner_id.k = "int" /\ p.f.options.k = "list"
    /\ \A j \in 1..Len(p.f.options.items) : WellTypedOption(p.f.options.items[j])
WellTypedPolls(v) ==
    v.k = "list" /\ \A i \in 1..Len(v.items) : WellTypedPoll(v.items[i])
WellTypedVote(v) ==
    /\ HasFields(v, VoteFields)
    /\ v.f.id.k = "int" /\ v.f.user_id.k = "int" /\ v.f.option_id.k = "int"
    /\ v.f.created_at.k = "str"
WellTypedResult(r) ==
    /\ HasFields(r, ResultFields)
    /\ r.f.option_id.k = "int" /\ r.f.text.k = "str" /\ r.f.vote_count.k = "int"
WellTypedResults(v) ==
    /\ HasFields(v, ResultsFields)
    /\ v.f.poll_id.k = "int" /\ v.f.question.k = "str" /\ v.f.results.k = "list"
    /\ \A e \in 1..Len(v.f.results.items) : WellTypedResult(v.f.results.items[e])

WellFormed(name, v) ==
    CASE name = "register_user" -> v.k = "obj"
      [] name = "fetch_polls" -> v.k = "list"
      [] name = "fetch_polls_with_validation" -> WellTypedPolls(v)
      [] name = "vote_on_poll" -> WellTypedVote(v)
      [] name = "get_poll_results" -> WellTypedResults(v)
      [] OTHER -> FALSE

(* What an error message says, read without the operators that built it. *)
Last(msg) == msg[Len(msg)]
ReportsPollMissing(out, i, field) ==
    /\ out.kind = "raise" /\ out.cls = "ValueError"
    /\ Contains(out.msg, <<"Poll", "at", "index", Decimal(i), "is", "missing">>)
    /\ Last(out.msg) = field
ReportsPollType(out, i, field) ==
    /\ out.kind = "raise" /\ out.cls = "ValueError"
    /\ Contains(out.msg, <<"Poll", "at", "index", Decimal(i) \o ":", "'" \o field \o "'", "must", "be">>)
ReportsOptionMissing(out, i, j, field) ==
    /\ out.kind = "raise" /\ out.cls = "ValueError"
    /\ Contains(out.msg, <<"Poll", Decimal(i) \o ",", "option", Decimal(j), "is", "missing">>)
    /\ Last(out.msg) = field

Lacks(x, field) == x.k = "obj" /\ field \notin DOMAIN x.f

-----------------------------------------------------------------------------
(* The claims. *)

HttpErrors ==
    {"RequestFailed", "RegistrationFailed", "DuplicateUsername", "Unauthorized", "NotFound"}

(* C1: for register, fetchPolls, vote and getResults, a non-200 response    *)
(* whose body is empty or is not JSON makes the call fail with the          *)
(* operation's ordinary error, whose message contains the numeric status    *)
(* code; no JSON-decoding error escapes to the caller.                      *)
C1_FallbackNamesStatus ==
    (/\ pc = "done"
     /\ op \in {"register_user", "fetch_polls", "vote_on_poll", "get_poll_results"}
     /\ GotHttp /\ response.status # 200 /\ ~GotJson)
    => (/\ outcome.kind = "raise"
        /\ ErrorName(outcome) \in HttpErrors
        /\ Contains(outcome.msg, <<Decimal(response.status)>>))

(* C2: whatever fetchPollsValidated, vote or getResults returns holds every *)
(* required field of every Poll, Option, Vote and PollResults in it, with   *)
(* the type the data model states.                                          *)
C2_ReturnedEntitiesWellTyped ==
    (/\ pc = "done" /\ outcome.kind = "return"
     /\ op \in {"fetch_polls_with_validation", "vote_on_poll", "get_poll_results"})
    => WellFormed(op, outcome.value)

(* C3: on a 200 response whose payload is well-formed for the operation,    *)
(* the operation returns exactly the decoded payload.                       *)
C3_WellFormedPayloadReturnedUnchanged ==
    (pc = "done" /\ Got200 /\ GotJson /\ WellFormed(op, Payload))
    => outcome = Return(Payload)

C3_Witness ==
    /\ Done("fetch_polls_with_validation") /\ Got200 /\ GotJson
    /\ WellFormed(op, Payload)
    /\ Len(Payload.items) >= 2
    /\ Len(Payload.items[2].f.options.items) >= 1
    /\ outcome.kind = "return"

(* C5: vote answers 401 with Unauthorized and 404 with NotFound, getResults *)
(* answers 404 with NotFound, whatever the body; nothing else produces      *)
(* these two errors.                                                        *)
C5_StatusDecidesUnauthorizedNotFound ==
    pc = "done" =>
        /\ (op = "vote_on_poll" /\ GotHttp /\ response.status = 401)
            <=> ErrorName(outcome) = "Unauthorized"
        /\ (op \in {"vote_on_poll", "get_poll_results"} /\ GotHttp /\ response.status = 404)
            <=> ErrorName(outcome) = "NotFound"

C5_Witness ==
    /\ Done("vote_on_poll") /\ GotHttp /\ response.status = 401
    /\ response.body = TextBody
    /\ ErrorName(outcome) = "Unauthorized"

(* What a register error body says. *)
DuplicateReported ==
    /\ response.status = 400 /\ GotJson
    /\ Payload.k = "obj" /\ "detail" \in DOMAIN Payload.f
    /\ Payload.f.detail.k = "str" /\ Contains(Payload.f.detail.s, DuplicateText)
DetailCarried ==
    IF GotJson /\ Payload.k = "obj" /\ "detail" \in DOMAIN Payload.f
    THEN PyStr(Payload.f.detail) ELSE <<"Unknown", "error">>

(* C6: register fails with DuplicateUsername exactly when the status is 400 *)
(* and the detail text contains "Username already registered"; every other  *)
(* non-200 response fails with RegistrationFailed carrying the detail text, *)
(* or "Unknown error" when there is no detail.                              *)
C6_DuplicateOrRegistrationFailed ==
    (Done("register_user") /\ GotHttp /\ response.status # 200)
    => IF DuplicateReported THEN ErrorName(outcome) = "DuplicateUsername"
       ELSE /\ ErrorName(outcome) = "RegistrationFailed"
            /\ Contains(outcome.msg, DetailCarried)

(* C7: a network-level failure reaches the caller as a TransportError, and  *)
(* only a network-level failure does: a call that got an HTTP response ends *)
(* in a returned payload or in one of the HTTP-level errors, and a 200      *)
(* response with a malformed body ends in InvalidResponse.                  *)
C7_TransportErrorOnlyWithoutResponse ==
    pc = "done" =>
        /\ response.net = "failed" => IsTransportError(outcome)
        /\ GotHttp =>
            /\ ~IsTransportError(outcome)
            /\ ErrorName(outcome) \in {"Returned", "InvalidResponse"} \cup HttpErrors
        /\ (Got200 /\ ~GotJson) => ErrorName(outcome) = "InvalidResponse"

(* C8: every call issues exactly one HTTP request, whatever its outcome.    *)
C8_OneRequestPerCall ==
    /\ sent = calls
    /\ pc = "done" => Len(requests) = 1

C8_Witness ==
    /\ Done("fetch_polls_with_validation") /\ Got200 /\ GotJson
    /\ ErrorName(outcome) = "InvalidResponse"
    /\ Len(requests) = 1 /\ calls = 2 /\ sent = 2

(* What the validation of a poll list accepts, stated on the payload. *)
AcceptedInt(x) == x.k \in {"int", "bool"}
PollFieldsAccepted(p) ==
    /\ HasFields(p, PollFields)
    /\ AcceptedInt(p.f.id) /\ p.f.question.k = "str"
    /\ AcceptedInt(p.f.owner_id) /\ p.f.options.k = "list"
PollAccepted(p) ==
    /\ PollFieldsAccepted(p)
    /\ \A j \in 1..Len(p.f.options.items) : HasFields(p.f.options.items[j], OptionFields)

GotPollList == Done("fetch_polls_with_validation") /\ Got200 /\ GotJson /\ Payload.k = "list"
Polls == Payload.items

(* C4 as stated: whenever the poll at index i lacks a required field, the   *)
(* call fails with an error naming that field and i; whenever option j of   *)
(* poll i lacks a required field, it fails with an error naming i, j and    *)
(* that field.                                                              *)
C4_EveryMissingFieldNamed ==
    GotPollList =>
        \A i \in 1..Len(Polls) :
            /\ \A n \in 1..Len(PollFields) :
                Lacks(Polls[i], PollFields[n])
                => ReportsPollMissing(outcome, i - 1, PollFields[n])
            /\ (HasFields(Polls[i], <<"options">>) /\ Polls[i].f.options.k = "list")
                => \A j \in 1..Len(Polls[i].f.options.items) :
                    \A m \in 1..Len(OptionFields) :
                        Lacks(Polls[i].f.options.items[j], OptionFields[m])
                        => ReportsOptionMissing(outcome, i - 1, j - 1, OptionFields[m])

(* C4 amended: the error names the field and the position when that field  *)
(* is the first one missing at that position and everything checked before *)
(* it is accepted: every earlier poll; for an option, also the fields of    *)
(* its own poll and every earlier option of that poll.                      *)
C4_FirstMissingFieldNamed ==
    GotPollList =>
        \A i \in 1..Len(Polls) :
            (\A h \in 1..(i - 1) : PollAccepted(Polls[h])) =>
                /\ \A n \in 1..Len(PollFields) :
                    (/\ Lacks(Polls[i], PollFields[n])
                     /\ \A b \in 1..(n - 1) : ~Lacks(Polls[i], PollFields[b]))
                    => ReportsPollMissing(outcome, i - 1, PollFields[n])
                /\ PollFieldsAccepted(Polls[i])
                    => \A j \in 1..Len(Polls[i].f.options.items) :
                        (\A e \in 1..(j - 1) :
                            HasFields(Polls[i].f.options.items[e], OptionFields))
                        => \A m \in 1..Len(OptionFields) :
                            (/\ Lacks(Polls[i].f.options.items[j], OptionFields[m])
                             /\ \A b \in 1..(m - 1) :
                                 ~Lacks(Polls[i].f.options.items[j], OptionFields[b]))
                            => ReportsOptionMissing(outcome, i - 1, j - 1, OptionFields[m])

C4_Witness ==
    /\ GotPollList /\ Len(Polls) >= 2
    /\ PollAccepted(Polls[1]) /\ PollFieldsAccepted(Polls[2])
    /\ Len(Polls[2].f.options.items) >= 1
    /\ Lacks(Polls[2].f.options.items[1], "text")
    /\ Lacks(Polls[2].f.options.items[1], "poll_id")
    /\ ReportsOptionMissing(outcome, 1, 0, "text")

(* The checks a poll fails, for poll lists whose polls and options are all  *)
(* JSON objects.  n numbers the fields of a poll, j the options of the poll *)
(* and m the fields of an option.                                           *)
AllObjects(polls) ==
    \A i \in 1..Len(polls) :
        /\ polls[i].k = "obj"
        /\ (HasFields(polls[i], <<"options">>) /\ polls[i].f.options.k = "list")
            => \A j \in 1..Len(polls[i].f.options.items) :
                polls[i].f.options.items[j].k = "obj"

Mistyped(p, n) ==
    /\ PollFields[n] \in DOMAIN p.f
    /\ CASE n = 1 -> ~AcceptedInt(p.f.id)
         [] n = 2 -> p.f.question.k # "str"
         [] n = 4 -> ~AcceptedInt(p.f.owner_id)
         [] n = 5 -> p.f.options.k # "list"
         [] OTHER -> FALSE

Violations(p) ==
    {[what |-> "missing", n |-> n, j |-> 0, m |-> 0] :
        n \in {n \in 1..Len(PollFields) : Lacks(p, PollFields[n])}}
    \cup
    {[what |-> "type", n |-> n, j |-> 0, m |-> 0] :
        n \in {n \in 1..Len(PollFields) : Mistyped(p, n)}}
    \cup
    (IF HasFields(p, <<"options">>) /\ p.f.options.k = "list"
     THEN {[what |-> "option", n |-> Len(PollFields), j |-> x[1], m |-> x[2]] :
            x \in {x \in (1..Len(p.f.options.items)) \X (1..Len(OptionFields)) :
                    Lacks(p.f.options.items[x[1]], OptionFields[x[2]])}}
     ELSE {})

(* Field-major order: the fields of the poll in their declared order, a     *)
(* field counting whether it is missing or mistyped, then the options.      *)
RankByField(v) ==
    IF v.what = "option" THEN Len(PollFields) + Len(OptionFields) * (v.j - 1) + v.m
    ELSE v.n

(* Check-major order: every missing field of the poll, then every mistyped  *)
(* field, then the options.                                                 *)
RankByCheck(v) ==
    CASE v.what = "missing" -> v.n
      [] v.what = "type" -> Len(PollFields) + v.n
      [] OTHER -> 2 * Len(PollFields) + Len(OptionFields) * (v.j - 1) + v.m

FirstByField(S) == CHOOSE v \in S : \A w \in S : RankByField(v) <= RankByField(w)
FirstByCheck(S) == CHOOSE v \in S : \A w \in S : RankByCheck(v) <= RankByCheck(w)

Violating(polls) == {i \in 1..Len(polls) : Violations(polls[i]) # {}}
FirstViolating(polls) == CHOOSE i \in Violating(polls) : \A h \in Violating(polls) : i <= h

Reports(out, i, v) ==
    CASE v.what = "missing" -> ReportsPollMissing(out, i - 1, PollFields[v.n])
      [] v.what = "type" -> ReportsPollType(out, i - 1, PollFields[v.n])
      [] OTHER -> ReportsOptionMissing(out, i - 1, v.j - 1, OptionFields[v.m])

(* C9 as stated: with several violations the call raises the error of the   *)
(* first missing or mistyped field in poll-major, option-minor order, a     *)
(* mistyped field that precedes a missing field being reported first, and   *)
(* returns no polls.                                                        *)
C9_FirstViolationInFieldOrder ==
    (GotPollList /\ AllObjects(Polls) /\ Violating(Polls) # {})
    => LET i == FirstViolating(Polls) IN
       Reports(outcome, i, FirstByField(Violations(Polls[i])))

(* C9 amended: the error raised is the one of the first failing check, the  *)
(* polls in order and within a poll every presence check before every type  *)
(* check before its options in order; so within one poll a missing field is *)
(* reported ahead of a mistyped one, whichever field comes first.  Nothing  *)
(* is returned unless no check fails.                                       *)
C9_FirstViolationInCheckOrder ==
    (GotPollList /\ AllObjects(Polls))
    => IF Violating(Polls) = {} THEN outcome = Return(Payload)
       ELSE LET i == FirstViolating(Polls) IN
            Reports(outcome, i, FirstByCheck(Violations(Polls[i])))

C9_Witness ==
    /\ GotPollList /\ AllObjects(Polls) /\ Len(Polls) >= 2
    /\ Violations(Polls[1]) = {}
    /\ Mistyped(Polls[2], 1) /\ Lacks(Polls[2], "owner_id")
    /\ ReportsPollMissing(outcome, 1, "owner_id")

(* What the claim about getResults takes for an acceptable payload. *)
ResultAccepted(r) ==
    /\ HasFields(r, ResultFields)
    /\ r.f.option_id.k = "int" /\ r.f.text.k = "str" /\ r.f.vote_count.k = "int"
ResultsAccepted(v) ==
    /\ HasFields(v, ResultsFields)
    /\ v.f.results.k = "list"
    /\ \A e \in 1..Len(v.f.results.items) : ResultAccepted(v.f.results.items[e])
BadResults(v) == {e \in 1..Len(v.f.results.items) : ~ResultAccepted(v.f.results.items[e])}

(* C10: on a 200 response getResults returns the payload exactly when it    *)
(* has poll_id, question and results, results is a sequence and every entry *)
(* has an integer option_id, a string text and an integer vote_count;       *)
(* otherwise it fails with InvalidResponse, and for a bad entry the error   *)
(* names the index of the first bad entry.                                  *)
C10_ResultsReturnedIffAcceptable ==
    (Done("get_poll_results") /\ Got200)
    => IF GotJson /\ ResultsAccepted(Payload) THEN outcome = Return(Payload)
       ELSE /\ ErrorName(outcome) = "InvalidResponse"
            /\ (GotJson /\ HasFields(Payload, ResultsFields) /\ Payload.f.results.k = "list")
                => \E e \in BadResults(Payload) :
                    /\ \A b \in BadResults(Payload) : e <= b
                    /\ Contains(outcome.msg, <<"result", Decimal(e - 1)>>)

====
